---- MODULE Spec2Model ----
(***************************************************************************)
(* A model of the prediction-market contract of src/src/contract.rs        *)
(* (PredictionMarketContract) and its operation surface src/src/lib.rs.    *)
(*                                                                         *)
(* Units.  An Amount is held in whole tokens: the code's Amount counts     *)
(* attos (10^18 per token) and every amount the operations below are fed   *)
(* is a whole number of tokens, which every operation preserves.  A        *)
(* Timestamp is held in whole seconds: the code's microsecond value is     *)
(* this number times 1_000_000.  Option<T> is the set {} or {x}.           *)
(* A map (MapView, BTreeMap) is a function whose DOMAIN is its key set.    *)
(***************************************************************************)
EXTENDS Integers, Sequences, FiniteSets, TLC

\* ------------------------------------------------------------------------
\* Bounds of the model
\* ------------------------------------------------------------------------
Players == {"p1", "p2"}

\* how many markets CreateMarket may store
MaxMarkets == 1

\* how many purchases one player may make (markets_participated)
MaxBuys == 1

\* how many trades one identity makes in TradeSpec: the tenth buy is the first
\* on which add_experience raises the level
MaxTrades == 10

\* the one identity that trades in TradeSpec
Traders == {"p1"}

\* the clock reaches the seconds 0..MaxSeconds of each day, up to the start of
\* day MaxDays
MaxSeconds == 1

MaxDays == 1

\* how many times one player may be paid by ClaimWinnings on one market
MaxClaims == 2

\* how many MarketResolved notifications one market may queue
MaxResolutions == 2

\* market ids an operation may name (none is stored before the first CreateMarket)
MarketIds == 0..(MaxMarkets - 1)

\* outcome ids an operation may name
OutcomeIds == 0..2

\* token amounts BuyShares and ContributeToGuild may name
Amounts == {0, 200, 5000}

\* share counts SellShares may name
ShareCounts == {0, 100, 200}

\* slippage bounds an operation may name
SlippageBounds == {0, 5000}

\* the largest shared_pool ContributeToGuild may fill
MaxPool == 200

\* outcome counts and durations (seconds) CreateMarket may name
OutcomeCounts == 1..3

Durations == 0..1

Methods == {"OracleVoting", "Automated", "CreatorDecides"}

\* ------------------------------------------------------------------------
\* Amount arithmetic (linera Amount, a u128 of attos)
\* ------------------------------------------------------------------------
\* Amount::saturating_add; the u128 ceiling is out of reach of the amounts here
SatAdd(a, b) == a + b

\* Amount::saturating_sub
SatSub(a, b) == IF a > b THEN a - b ELSE 0

\* Amount::saturating_mul(k).saturating_div(Amount::from_tokens(n)): the u128
\* quotient of two atto counts, floor(a * k / n) for whole-token a
MulDivTokens(a, k, n) == (a * k) \div n

\* x.saturating_div(Amount::from_tokens(n).into()) on a plain u128 x: the
\* divisor is n * 10^18, the atto count of n tokens
DivByAttosOf(x, n) == ((x \div 1000000000) \div 1000000000) \div n

\* ------------------------------------------------------------------------
\* State
\* ------------------------------------------------------------------------
VARIABLES
    config,          \* state.config
    total_supply,    \* state.total_supply
    next_market_id,  \* state.next_market_id
    players,         \* state.players : PlayerId -> Player
    markets,         \* state.markets : MarketId -> Market
    oracle_votes,    \* state.oracle_votes : MarketId -> OracleVoting
    guilds,          \* state.guilds : GuildId -> Guild
    now,             \* runtime.system_time()
    claimCount,      \* history: ClaimWinnings calls that returned Ok, per player and market
    paidOut,         \* history: tokens credited by ClaimWinnings, per market
    resolvedSent     \* history: MarketResolved messages queued, per market

vars == <<config, total_supply, next_market_id, players, markets, oracle_votes,
          guilds, now, claimCount, paidOut, resolvedSent>>

\* what the contract stores
store == <<config, total_supply, next_market_id, players, markets, oracle_votes, guilds>>

history == <<claimCount, paidOut, resolvedSent>>

\* the instantiation argument
InitialConfig ==
    [initial_player_tokens |-> 1000,
     daily_login_reward |-> 10,
     market_creation_cost |-> 50,
     max_outcomes_per_market |-> 2,
     min_market_duration_seconds |-> 1,
     oracle_voting_duration_seconds |-> 1,
     admin |-> {"p1"}]

\* configurations UpdateGameConfig may name
Configs == {InitialConfig,
            [InitialConfig EXCEPT !.market_creation_cost = 100],
            [InitialConfig EXCEPT !.market_creation_cost = 2000],
            [InitialConfig EXCEPT !.max_outcomes_per_market = 3],
            [InitialConfig EXCEPT !.max_outcomes_per_market = 1]}

Init ==
    /\ config = InitialConfig
    /\ total_supply = 0
    /\ next_market_id = 0
    /\ players = <<>>
    /\ markets = <<>>
    /\ oracle_votes = <<>>
    /\ guilds = <<>>
    /\ now = 0
    /\ claimCount = [p \in Players |-> [m \in 0..(MaxMarkets - 1) |-> 0]]
    /\ paidOut = [m \in 0..(MaxMarkets - 1) |-> 0]
    /\ resolvedSent = [m \in 0..(MaxMarkets - 1) |-> 0]

\* What one call of a handler does: the Result it returns (res: "Ok" or the
\* error), the messages it queued with prepare_message, and the store it leaves.
\* Unwritten(res) is a call that returned res having written and queued nothing.
Unwritten(res) ==
    [res |-> res, msgs |-> <<>>, config |-> config, total_supply |-> total_supply,
     next_market_id |-> next_market_id, players |-> players, markets |-> markets,
     oracle_votes |-> oracle_votes, guilds |-> guilds]

\* the store a call leaves
StoreOf(r) == <<r.config, r.total_supply, r.next_market_id, r.players, r.markets,
                r.oracle_votes, r.guilds>>

\* the call is executed: its store is committed
Commit(r) ==
    /\ config' = r.config
    /\ total_supply' = r.total_supply
    /\ next_market_id' = r.next_market_id
    /\ players' = r.players
    /\ markets' = r.markets
    /\ oracle_votes' = r.oracle_votes
    /\ guilds' = r.guilds
    /\ now' = now

\* map insert
Put(map, k, v) == (k :> v) @@ map

\* what execute_operation hands back to the caller for a handler's outcome r:
\* every arm is `let _ = handler(..).await;` and the function ends with the unit
\* value of type Response = (); only a panic, which aborts the operation, never
\* reaches that end
ExecuteOperationResponse(r) == IF r.res = "Panic" THEN "Panic" ELSE "()"

\* ------------------------------------------------------------------------
\* The clock
\* ------------------------------------------------------------------------
\* 24 * 60 * 60 seconds, the code's one_day_micros
OneDaySeconds == 86400

\* the steps the clock takes
TickSteps == {1, OneDaySeconds}

Tick(d) ==
    /\ now + d <= MaxDays * OneDaySeconds
    /\ (now + d) % OneDaySeconds <= MaxSeconds
    /\ now' = now + d
    /\ UNCHANGED <<store, history>>

\* ------------------------------------------------------------------------
\* register_player
\* ------------------------------------------------------------------------
NewPlayer(p, t) ==
    [id |-> p,
     last_login |-> t,
     token_balance |-> config.initial_player_tokens,
     total_earned |-> config.initial_player_tokens,
     total_spent |-> 0,
     level |-> 1,
     experience_points |-> 0,
     reputation |-> 100,
     markets_participated |-> 0,
     markets_won |-> 0,
     total_profit |-> 0,
     win_streak |-> 0,
     guild_id |-> {},
     achievements_earned |-> <<>>,
     active_markets |-> <<>>]

RegisterPlayerCall(p, t) ==
    IF p \in DOMAIN players
    THEN Unwritten("PlayerAlreadyExists")
    ELSE [Unwritten("Ok") EXCEPT
            !.players = Put(players, p, NewPlayer(p, t)),
            !.total_supply = SatAdd(total_supply, config.initial_player_tokens)]

RegisterPlayer(p) ==
    /\ Commit(RegisterPlayerCall(p, now))
    /\ UNCHANGED history

\* ------------------------------------------------------------------------
\* claim_daily_reward
\* ------------------------------------------------------------------------
ClaimDailyRewardError(p, t) ==
    IF p \notin DOMAIN players THEN "PlayerNotFound"
    ELSE IF t - players[p].last_login < OneDaySeconds THEN "DailyRewardAlreadyClaimed"
    ELSE "Ok"

ClaimDailyRewardCall(p, t) ==
    LET err == ClaimDailyRewardError(p, t)
        reward == config.daily_login_reward
    IN  IF err # "Ok"
        THEN Unwritten(err)
        ELSE [Unwritten("Ok") EXCEPT
                !.players = [players EXCEPT
                    ![p].token_balance = SatAdd(@, reward),
                    ![p].total_earned = SatAdd(@, reward),
                    ![p].last_login = t],
                !.total_supply = SatAdd(total_supply, reward)]

ClaimDailyReward(p) ==
    /\ Commit(ClaimDailyRewardCall(p, now))
    /\ UNCHANGED history

\* ------------------------------------------------------------------------
\* create_market
\* ------------------------------------------------------------------------
\* Amount::from_tokens(1)
OneToken == 1

\* the checks of create_market, in the code's order
\* CreateMarketError accepting a single outcome name
CreateMarketErrorSingleOutcome(creator, n, duration_seconds) ==
    IF creator \notin DOMAIN players THEN "PlayerNotFound"
    ELSE IF n < 1 \/ n > config.max_outcomes_per_market THEN "InvalidOutcomeCount"
    ELSE IF duration_seconds < config.min_market_duration_seconds THEN "DurationTooShort"
    ELSE IF players[creator].token_balance < config.market_creation_cost THEN "InsufficientBalance"
    ELSE "Ok"

\* CreateMarketError rejecting a duration equal to the minimum
CreateMarketErrorDurationStrict(creator, n, duration_seconds) ==
    IF creator \notin DOMAIN players THEN "PlayerNotFound"
    ELSE IF n < 2 \/ n > config.max_outcomes_per_market THEN "InvalidOutcomeCount"
    ELSE IF duration_seconds <= config.min_market_duration_seconds THEN "DurationTooShort"
    ELSE IF players[creator].token_balance < config.market_creation_cost THEN "InsufficientBalance"
    ELSE "Ok"

CreateMarketError(creator, n, duration_seconds) ==
    IF creator \notin DOMAIN players THEN "PlayerNotFound"
    ELSE IF n < 2 \/ n > config.max_outcomes_per_market THEN "InvalidOutcomeCount"
    ELSE IF duration_seconds < config.min_market_duration_seconds THEN "DurationTooShort"
    ELSE IF players[creator].token_balance < config.market_creation_cost THEN "InsufficientBalance"
    ELSE "Ok"

\* Timestamp::from(current_time.micros() + duration_seconds * 1_000_000)
EndTime(t, duration_seconds) == t + duration_seconds

NewMarket(id, creator, n, duration_seconds, method, t) ==
    [id |-> id,
     creator |-> creator,
     outcomes |-> [i \in 1..n |-> [id |-> i - 1, total_shares |-> 0, current_price |-> OneToken]],
     creation_time |-> t,
     end_time |-> EndTime(t, duration_seconds),
     resolution_time |-> {},
     status |-> "Active",
     total_liquidity |-> 0,
     positions |-> <<>>,
     total_participants |-> 0,
     base_price |-> OneToken,
     winning_outcome |-> {},
     resolution_method |-> method]

\* distribute_market_creator_fee: the players and the supply after it
CreatorFeeAmount(total_fee) == MulDivTokens(total_fee, 2, 100)

PlatformFeeAmount(total_fee) == MulDivTokens(total_fee, 1, 100)

CreatorFeePlayers(ps, creator, total_fee) ==
    IF CreatorFeeAmount(total_fee) > 0
    THEN [ps EXCEPT ![creator].token_balance = SatAdd(@, CreatorFeeAmount(total_fee)),
                    ![creator].total_earned = SatAdd(@, CreatorFeeAmount(total_fee))]
    ELSE ps

CreatorFeeSupply(supply, total_fee) ==
    IF PlatformFeeAmount(total_fee) > 0
    THEN SatAdd(supply, PlatformFeeAmount(total_fee))
    ELSE supply

\* CreateMarketCall with generate_market_id called before the checks
CreateMarketCallEarlyId(creator, n, duration_seconds, method, t) ==
    LET err == CreateMarketError(creator, n, duration_seconds)
        cost == config.market_creation_cost
        market_id == next_market_id
        debited == [players EXCEPT ![creator].token_balance = SatSub(@, cost),
                                   ![creator].total_spent = SatAdd(@, cost)]
    IN  IF err = "PlayerNotFound"
        THEN Unwritten(err)
        ELSE IF err # "Ok"
        THEN [Unwritten(err) EXCEPT !.next_market_id = market_id + 1]
        ELSE [Unwritten("Ok") EXCEPT
                !.next_market_id = market_id + 1,
                !.markets = Put(markets, market_id,
                                NewMarket(market_id, creator, n, duration_seconds, method, t)),
                !.players = CreatorFeePlayers(debited, creator, cost),
                !.total_supply = CreatorFeeSupply(total_supply, cost),
                !.msgs = <<[type |-> "MarketCreated", market_id |-> market_id,
                            creator |-> creator]>>]

CreateMarketCall(creator, n, duration_seconds, method, t) ==
    LET err == CreateMarketError(creator, n, duration_seconds)
        cost == config.market_creation_cost
        market_id == next_market_id
        debited == [players EXCEPT ![creator].token_balance = SatSub(@, cost),
                                   ![creator].total_spent = SatAdd(@, cost)]
    IN  IF err # "Ok"
        THEN Unwritten(err)
        ELSE [Unwritten("Ok") EXCEPT
                !.next_market_id = market_id + 1,
                !.markets = Put(markets, market_id,
                                NewMarket(market_id, creator, n, duration_seconds, method, t)),
                !.players = CreatorFeePlayers(debited, creator, cost),
                !.total_supply = CreatorFeeSupply(total_supply, cost),
                !.msgs = <<[type |-> "MarketCreated", market_id |-> market_id,
                            creator |-> creator]>>]

CreateMarket(creator, n, duration_seconds, method) ==
    LET r == CreateMarketCall(creator, n, duration_seconds, method, now)
    IN  /\ r.res = "Ok" => next_market_id < MaxMarkets
        /\ Commit(r)
        /\ UNCHANGED history

\* ------------------------------------------------------------------------
\* create_market at the full width of its timing: duration_seconds and the
\* microseconds of a Timestamp are u64, here little-endian sequences of U64Bytes
\* bytes, so that line 452 is computed as the machine computes it
\* ------------------------------------------------------------------------
U64Bytes == 8

ByteRadix == 256

MicrosPerSecond == 1000000

RECURSIVE BytesOf(_, _)
BytesOf(n, k) ==
    IF k = 0 THEN <<>> ELSE <<n % ByteRadix>> \o BytesOf(n \div ByteRadix, k - 1)

\* a small natural number as a u64
ToU64(n) == BytesOf(n, U64Bytes)

\* x * k from byte i on, with the carry out of the top byte
RECURSIVE MulFrom(_, _, _, _)
MulFrom(x, k, i, carry) ==
    IF i > Len(x)
    THEN [bytes |-> <<>>, carry |-> carry]
    ELSE LET p == x[i] * k + carry
             rest == MulFrom(x, k, i + 1, p \div ByteRadix)
         IN  [bytes |-> <<p % ByteRadix>> \o rest.bytes, carry |-> rest.carry]

\* x + y from byte i on, with the carry out of the top byte
RECURSIVE AddFrom(_, _, _, _)
AddFrom(x, y, i, carry) ==
    IF i > Len(x)
    THEN [bytes |-> <<>>, carry |-> carry]
    ELSE LET p == x[i] + y[i] + carry
             rest == AddFrom(x, y, i + 1, p \div ByteRadix)
         IN  [bytes |-> <<p % ByteRadix>> \o rest.bytes, carry |-> rest.carry]

\* x < y, compared from byte i down
RECURSIVE LessFrom(_, _, _)
LessFrom(x, y, i) ==
    IF i = 0 THEN FALSE
    ELSE IF x[i] # y[i] THEN x[i] < y[i]
    ELSE LessFrom(x, y, i - 1)

LessU64(x, y) == LessFrom(x, y, U64Bytes)

\* Timestamp::micros() of the clock, which the model keeps in whole seconds
MicrosOf(t) == MulFrom(ToU64(t), MicrosPerSecond, 1, 0).bytes

\* current_time.micros() + duration_seconds * 1_000_000 in u64: the bytes the
\* wrapping arithmetic leaves and whether either operation overflowed
EndTimeMicros(t, duration_seconds) ==
    LET product == MulFrom(duration_seconds, MicrosPerSecond, 1, 0)
        sum == AddFrom(MicrosOf(t), product.bytes, 1, 0)
    IN  [micros |-> sum.bytes, overflow |-> product.carry > 0 \/ sum.carry > 0]

\* the durations CreateMarketTimed may name: 0, 1, the largest whose product
\* with 1_000_000 fits in u64 (18446744073709), the next one, and u64::MAX
LongDurations ==
    {ToU64(0), ToU64(1),
     <<237, 181, 160, 247, 198, 16, 0, 0>>,
     <<238, 181, 160, 247, 198, 16, 0, 0>>,
     <<255, 255, 255, 255, 255, 255, 255, 255>>}

\* create_market with a u64 duration. An overflow at line 452 panics in a build
\* with overflow checks, which discards the call, and wraps in one without.
CreateMarketTimedCall(creator, n, duration_seconds, method, t, overflow_checks) ==
    LET least == config.min_market_duration_seconds
        \* the duration as the checks read it: only its order with the minimum matters
        checked == IF LessU64(duration_seconds, ToU64(least)) THEN least - 1 ELSE least
        r == CreateMarketCall(creator, n, checked, method, t)
        end_time == EndTimeMicros(t, duration_seconds)
    IN  IF r.res # "Ok"
        THEN r
        ELSE IF end_time.overflow /\ overflow_checks
        THEN Unwritten("Panic")
        ELSE [r EXCEPT !.markets[next_market_id].creation_time = MicrosOf(t),
                       !.markets[next_market_id].end_time = end_time.micros]

CreateMarketTimed(creator, n, duration_seconds, method, overflow_checks) ==
    LET r == CreateMarketTimedCall(creator, n, duration_seconds, method, now, overflow_checks)
    IN  /\ r.res = "Ok" => next_market_id < MaxMarkets
        /\ Commit(r)
        /\ UNCHANGED history

\* ------------------------------------------------------------------------
\* Achievements and experience
\* ------------------------------------------------------------------------
\* initialize_achievements: the catalog, ids 1..7
Achievements ==
    <<[reward_tokens |-> 50,   reward_xp |-> 100,  kind |-> "ParticipateInMarkets", n |-> 1],
      [reward_tokens |-> 200,  reward_xp |-> 500,  kind |-> "CreateMarkets", n |-> 5],
      [reward_tokens |-> 500,  reward_xp |-> 1000, kind |-> "WinMarkets", n |-> 10],
      [reward_tokens |-> 300,  reward_xp |-> 750,  kind |-> "WinStreak", n |-> 5],
      [reward_tokens |-> 1000, reward_xp |-> 2000, kind |-> "TotalProfit", n |-> 1000],
      [reward_tokens |-> 150,  reward_xp |-> 300,  kind |-> "JoinGuild", n |-> 0],
      [reward_tokens |-> 400,  reward_xp |-> 1000, kind |-> "ReachLevel", n |-> 10]>>

\* Vec::contains
Contains(seq, x) == \E i \in 1..Len(seq) : seq[i] = x

\* check_achievement_requirement, reading the stored markets
CheckAchievementRequirement(player, a) ==
    CASE a.kind = "WinMarkets" -> player.markets_won >= a.n
      [] a.kind = "WinStreak" -> player.win_streak >= a.n
      [] a.kind = "TotalProfit" -> player.total_profit >= a.n
      [] a.kind = "ParticipateInMarkets" -> player.markets_participated >= a.n
      [] a.kind = "CreateMarkets" ->
            Cardinality({i \in 1..Len(player.active_markets) :
                /\ player.active_markets[i] \in DOMAIN markets
                /\ markets[player.active_markets[i]].creator = player.id}) >= a.n
      [] a.kind = "JoinGuild" -> player.guild_id # {}
      [] a.kind = "ReachLevel" -> player.level >= a.n

\* check_achievements from catalog id i on: the player and the messages queued
RECURSIVE CheckAchievementsFrom(_, _, _)
CheckAchievementsFrom(i, player, msgs) ==
    IF i > Len(Achievements)
    THEN [player |-> player, msgs |-> msgs]
    ELSE IF ~Contains(player.achievements_earned, i)
            /\ CheckAchievementRequirement(player, Achievements[i])
         THEN CheckAchievementsFrom(i + 1,
                [player EXCEPT
                    !.achievements_earned = Append(@, i),
                    !.token_balance = SatAdd(@, Achievements[i].reward_tokens),
                    !.total_earned = SatAdd(@, Achievements[i].reward_tokens),
                    !.experience_points = @ + Achievements[i].reward_xp],
                Append(msgs, [type |-> "AchievementUnlocked", player_id |-> player.id,
                              achievement_id |-> i]))
         ELSE CheckAchievementsFrom(i + 1, player, msgs)

CheckAchievements(player) == CheckAchievementsFrom(1, player, <<>>)

\* the while loop of add_experience
RECURSIVE LevelUp(_)
LevelUp(player) ==
    IF player.experience_points >= player.level * 100
    THEN LevelUp([player EXCEPT !.experience_points = @ - player.level * 100,
                                !.level = @ + 1])
    ELSE player

\* add_experience: the player and the messages queued
AddExperience(player, xp) ==
    LET levelled == LevelUp([player EXCEPT !.experience_points = @ + xp])
    IN  IF levelled.level > player.level
        THEN CheckAchievements(levelled)
        ELSE [player |-> levelled, msgs |-> <<>>]

\* ------------------------------------------------------------------------
\* Pricing
\* ------------------------------------------------------------------------
\* calculate_shares_for_amount, for an outcome id in range
CalculateSharesForAmount(market, outcome_id, amount) ==
    IF market.total_liquidity = 0
    THEN amount
    ELSE IF market.base_price > 0 THEN amount ELSE amount

\* calculate_current_price, for an outcome id in range
CalculateCurrentPrice(market, outcome_id) ==
    IF market.total_liquidity = 0
    THEN market.base_price
    ELSE IF market.base_price >= market.base_price THEN market.base_price ELSE market.base_price

\* calculate_sell_value paying half a token a share
CalculateSellValueHalved(market, outcome_id, shares) == shares \div 2

\* calculate_sell_value
CalculateSellValue(market, outcome_id, shares) == shares

\* distribute_trading_fees: the u128 fee, its split, the players and the supply after it
TradingFee(trade_amount) == MulDivTokens(trade_amount, 1, 200)

CreatorShare(trade_amount) == DivByAttosOf(TradingFee(trade_amount), 2)

PlatformShare(trade_amount) == TradingFee(trade_amount) - CreatorShare(trade_amount)

TradingFeePlayers(ps, creator, trade_amount) ==
    IF TradingFee(trade_amount) > 0
    THEN [ps EXCEPT ![creator].token_balance = SatAdd(@, CreatorShare(trade_amount)),
                    ![creator].total_earned = SatAdd(@, CreatorShare(trade_amount))]
    ELSE ps

TradingFeeSupply(supply, trade_amount) ==
    IF TradingFee(trade_amount) > 0
    THEN SatAdd(supply, PlatformShare(trade_amount))
    ELSE supply

\* ------------------------------------------------------------------------
\* buy_shares
\* ------------------------------------------------------------------------
\* BTreeMap::get(..).copied().unwrap_or(Amount::ZERO)
SharesOf(position, outcome_id) ==
    IF outcome_id \in DOMAIN position.shares_by_outcome
    THEN position.shares_by_outcome[outcome_id]
    ELSE 0

\* BuySharesError still accepting a buy at the second the market ends
BuySharesErrorEndInclusive(player_id, market_id, outcome_id, amount, max_price_per_share, t) ==
    IF market_id \notin DOMAIN markets THEN "MarketNotFound"
    ELSE IF player_id \notin DOMAIN players THEN "PlayerNotFound"
    ELSE IF markets[market_id].status # "Active" THEN "MarketNotActive"
    ELSE IF t > markets[market_id].end_time THEN "MarketEnded"
    ELSE IF outcome_id >= Len(markets[market_id].outcomes) THEN "InvalidOutcome"
    ELSE IF players[player_id].token_balance < amount THEN "InsufficientBalance"
    ELSE IF amount > max_price_per_share THEN "SlippageExceeded"
    ELSE "Ok"

\* the checks of buy_shares, in the code's order
BuySharesError(player_id, market_id, outcome_id, amount, max_price_per_share, t) ==
    IF market_id \notin DOMAIN markets THEN "MarketNotFound"
    ELSE IF player_id \notin DOMAIN players THEN "PlayerNotFound"
    ELSE IF markets[market_id].status # "Active" THEN "MarketNotActive"
    ELSE IF t >= markets[market_id].end_time THEN "MarketEnded"
    ELSE IF outcome_id >= Len(markets[market_id].outcomes) THEN "InvalidOutcome"
    ELSE IF players[player_id].token_balance < amount THEN "InsufficientBalance"
    ELSE IF amount > max_price_per_share THEN "SlippageExceeded"
    ELSE "Ok"

\* the market record buy_shares stores
BoughtMarket(market, player, outcome_id, amount, shares, t) ==
    LET position == IF player.id \in DOMAIN market.positions
                    THEN market.positions[player.id]
                    ELSE [shares_by_outcome |-> <<>>, total_invested |-> 0, entry_time |-> t]
        upserted == [position EXCEPT
                        !.shares_by_outcome =
                            Put(@, outcome_id, SatAdd(SharesOf(position, outcome_id), shares)),
                        !.total_invested = SatAdd(@, amount)]
        traded == [market EXCEPT
                        !.outcomes[outcome_id + 1].total_shares = SatAdd(@, shares),
                        !.total_liquidity = SatAdd(@, amount),
                        !.positions = Put(@, player.id, upserted),
                        !.total_participants =
                            IF Contains(player.active_markets, market.id) THEN @ ELSE @ + 1]
    IN  [traded EXCEPT !.outcomes[outcome_id + 1].current_price =
                            CalculateCurrentPrice(traded, outcome_id)]

\* the player record buy_shares stores, and the messages add_experience queued
BoughtPlayer(player, market_id, amount) ==
    AddExperience(
        [player EXCEPT
            !.active_markets = IF Contains(@, market_id) THEN @ ELSE Append(@, market_id),
            !.token_balance = SatSub(@, amount),
            !.total_spent = SatAdd(@, amount),
            !.markets_participated = @ + 1],
        10)

\* BuySharesCall with the slippage check made after the writes
BuySharesCallChecksLate(player_id, market_id, outcome_id, amount, max_price_per_share, t) ==
    LET err == BuySharesError(player_id, market_id, outcome_id, amount, amount, t)
    IN  IF err # "Ok"
        THEN Unwritten(err)
        ELSE LET market == markets[market_id]
                 player == players[player_id]
                 shares == CalculateSharesForAmount(market, outcome_id, amount)
                 bought == BoughtPlayer(player, market_id, amount)
             IN  [Unwritten(IF amount > max_price_per_share THEN "SlippageExceeded" ELSE "Ok")
                  EXCEPT
                    !.markets = Put(markets, market_id,
                        BoughtMarket(market, player, outcome_id, amount, shares, t)),
                    !.players = TradingFeePlayers(Put(players, player_id, bought.player),
                                                  market.creator, amount),
                    !.total_supply = TradingFeeSupply(total_supply, amount)]

BuySharesCall(player_id, market_id, outcome_id, amount, max_price_per_share, t) ==
    LET err == BuySharesError(player_id, market_id, outcome_id, amount,
                              max_price_per_share, t)
    IN  IF err # "Ok"
        THEN Unwritten(err)
        ELSE LET market == markets[market_id]
                 player == players[player_id]
                 shares == CalculateSharesForAmount(market, outcome_id, amount)
                 bought == BoughtPlayer(player, market_id, amount)
             IN  [Unwritten("Ok") EXCEPT
                    !.markets = Put(markets, market_id,
                        BoughtMarket(market, player, outcome_id, amount, shares, t)),
                    !.players = TradingFeePlayers(Put(players, player_id, bought.player),
                                                  market.creator, amount),
                    !.total_supply = TradingFeeSupply(total_supply, amount),
                    !.msgs = Append(bought.msgs,
                        [type |-> "TradeExecuted", player_id |-> player_id,
                         market_id |-> market_id, outcome_id |-> outcome_id,
                         shares |-> shares, price |-> amount])]

BuyShares(player_id, market_id, outcome_id, amount, max_price_per_share) ==
    LET r == BuySharesCall(player_id, market_id, outcome_id, amount, max_price_per_share, now)
    IN  /\ r.res = "Ok" => players[player_id].markets_participated < MaxBuys
        /\ Commit(r)
        /\ UNCHANGED history

\* BuyShares repeated by one identity until it has traded MaxTrades times
BuySharesRepeated(player_id, market_id, outcome_id, amount, max_price_per_share) ==
    LET r == BuySharesCall(player_id, market_id, outcome_id, amount, max_price_per_share, now)
    IN  /\ r.res = "Ok" => players[player_id].markets_participated < MaxTrades
        /\ Commit(r)
        /\ UNCHANGED history

\* SellSharesError without the check of the market's status
SellSharesErrorAnyStatus(player_id, market_id, outcome_id, shares, min_price_per_share) ==
    IF market_id \notin DOMAIN markets THEN "MarketNotFound"
    ELSE IF player_id \notin DOMAIN players THEN "PlayerNotFound"
    ELSE IF player_id \notin DOMAIN markets[market_id].positions THEN "NoPosition"
    ELSE IF SharesOf(markets[market_id].positions[player_id], outcome_id) < shares
         THEN "InsufficientShares"
    ELSE IF CalculateSellValue(markets[market_id], outcome_id, shares) < min_price_per_share
         THEN "SlippageExceeded"
    ELSE IF outcome_id >= Len(markets[market_id].outcomes) THEN "Panic"
    ELSE "Ok"

\* SellSharesError without the comparison of the owned shares with the request
SellSharesErrorOversell(player_id, market_id, outcome_id, shares, min_price_per_share) ==
    IF market_id \notin DOMAIN markets THEN "MarketNotFound"
    ELSE IF player_id \notin DOMAIN players THEN "PlayerNotFound"
    ELSE IF markets[market_id].status # "Active" THEN "MarketNotActive"
    ELSE IF player_id \notin DOMAIN markets[market_id].positions THEN "NoPosition"
    ELSE IF CalculateSellValue(markets[market_id], outcome_id, shares) < min_price_per_share
         THEN "SlippageExceeded"
    ELSE IF outcome_id >= Len(markets[market_id].outcomes) THEN "Panic"
    ELSE "Ok"

\* ------------------------------------------------------------------------
\* sell_shares
\* ------------------------------------------------------------------------
\* the checks of sell_shares, in the code's order; the last is the indexing
\* market.outcomes[outcome_id as usize], which panics out of range
SellSharesError(player_id, market_id, outcome_id, shares, min_price_per_share) ==
    IF market_id \notin DOMAIN markets THEN "MarketNotFound"
    ELSE IF player_id \notin DOMAIN players THEN "PlayerNotFound"
    ELSE IF markets[market_id].status # "Active" THEN "MarketNotActive"
    ELSE IF player_id \notin DOMAIN markets[market_id].positions THEN "NoPosition"
    ELSE IF SharesOf(markets[market_id].positions[player_id], outcome_id) < shares
         THEN "InsufficientShares"
    ELSE IF CalculateSellValue(markets[market_id], outcome_id, shares) < min_price_per_share
         THEN "SlippageExceeded"
    ELSE IF outcome_id >= Len(markets[market_id].outcomes) THEN "Panic"
    ELSE "Ok"

\* BTreeMap::remove
Remove(map, k) == [x \in DOMAIN map \ {k} |-> map[x]]

\* the market record sell_shares stores
SoldMarket(market, player_id, outcome_id, shares, sell_value) ==
    LET owned_shares == SharesOf(market.positions[player_id], outcome_id)
        new_shares == SatSub(owned_shares, shares)
        traded == [market EXCEPT
                        !.outcomes[outcome_id + 1].total_shares = SatSub(@, shares),
                        !.total_liquidity = SatSub(@, sell_value),
                        !.positions[player_id].shares_by_outcome =
                            IF new_shares = 0
                            THEN Remove(@, outcome_id)
                            ELSE Put(@, outcome_id, new_shares)]
    IN  [traded EXCEPT !.outcomes[outcome_id + 1].current_price =
                            CalculateCurrentPrice(traded, outcome_id)]

SellSharesCall(player_id, market_id, outcome_id, shares, min_price_per_share, t) ==
    LET err == SellSharesError(player_id, market_id, outcome_id, shares, min_price_per_share)
    IN  IF err # "Ok"
        THEN Unwritten(err)
        ELSE LET market == markets[market_id]
                 sell_value == CalculateSellValue(market, outcome_id, shares)
                 credited == [players EXCEPT ![player_id].token_balance = SatAdd(@, sell_value)]
             IN  [Unwritten("Ok") EXCEPT
                    !.markets = Put(markets, market_id,
                        SoldMarket(market, player_id, outcome_id, shares, sell_value)),
                    !.players = TradingFeePlayers(credited, market.creator, sell_value),
                    !.total_supply = TradingFeeSupply(total_supply, sell_value)]

SellShares(player_id, market_id, outcome_id, shares, min_price_per_share) ==
    /\ Commit(SellSharesCall(player_id, market_id, outcome_id, shares,
                             min_price_per_share, now))
    /\ UNCHANGED history

\* ------------------------------------------------------------------------
\* vote_on_outcome
\* ------------------------------------------------------------------------
\* the record vote_on_outcome starts from: the stored one, or a fresh one
VotingOf(market_id, t) ==
    IF market_id \in DOMAIN oracle_votes
    THEN oracle_votes[market_id]
    ELSE [market_id |-> market_id,
          voting_start |-> t,
          voting_end |-> t + config.oracle_voting_duration_seconds,
          votes |-> <<>>,
          voters |-> <<>>,
          resolved |-> FALSE]

\* VoteOnOutcomeError rejecting only a market still Active
VoteOnOutcomeErrorNotActive(voter_id, market_id, outcome_id, t) ==
    IF market_id \notin DOMAIN markets THEN "MarketNotFound"
    ELSE IF voter_id \notin DOMAIN players THEN "PlayerNotFound"
    ELSE IF markets[market_id].status = "Active" THEN "MarketNotReadyForVoting"
    ELSE IF markets[market_id].resolution_method # "OracleVoting" THEN "InvalidResolutionMethod"
    ELSE IF Contains(VotingOf(market_id, t).voters, voter_id) THEN "AlreadyVoted"
    ELSE "Ok"

\* VoteOnOutcomeError without the look-up in the voter list
VoteOnOutcomeErrorRevote(voter_id, market_id, outcome_id, t) ==
    IF market_id \notin DOMAIN markets THEN "MarketNotFound"
    ELSE IF voter_id \notin DOMAIN players THEN "PlayerNotFound"
    ELSE IF markets[market_id].status # "Closed" THEN "MarketNotReadyForVoting"
    ELSE IF markets[market_id].resolution_method # "OracleVoting" THEN "InvalidResolutionMethod"
    ELSE "Ok"

\* VoteOnOutcomeError without the check of the resolution method
VoteOnOutcomeErrorAnyMethod(voter_id, market_id, outcome_id, t) ==
    IF market_id \notin DOMAIN markets THEN "MarketNotFound"
    ELSE IF voter_id \notin DOMAIN players THEN "PlayerNotFound"
    ELSE IF markets[market_id].status # "Closed" THEN "MarketNotReadyForVoting"
    ELSE IF Contains(VotingOf(market_id, t).voters, voter_id) THEN "AlreadyVoted"
    ELSE "Ok"

\* the checks of vote_on_outcome, in the code's order
VoteOnOutcomeError(voter_id, market_id, outcome_id, t) ==
    IF market_id \notin DOMAIN markets THEN "MarketNotFound"
    ELSE IF voter_id \notin DOMAIN players THEN "PlayerNotFound"
    ELSE IF markets[market_id].status # "Closed" THEN "MarketNotReadyForVoting"
    ELSE IF markets[market_id].resolution_method # "OracleVoting" THEN "InvalidResolutionMethod"
    ELSE IF Contains(VotingOf(market_id, t).voters, voter_id) THEN "AlreadyVoted"
    ELSE "Ok"

\* votes.entry(outcome_id).or_insert(..), then the two increments
CastVote(voting, voter_id, outcome_id, vote_weight) ==
    LET before == IF outcome_id \in DOMAIN voting.votes
                  THEN voting.votes[outcome_id]
                  ELSE [total_weight |-> 0, voter_count |-> 0]
    IN  [voting EXCEPT
            !.votes = Put(@, outcome_id,
                          [total_weight |-> before.total_weight + vote_weight,
                           voter_count |-> before.voter_count + 1]),
            !.voters = Append(@, voter_id)]

VoteOnOutcomeCall(voter_id, market_id, outcome_id, t) ==
    LET err == VoteOnOutcomeError(voter_id, market_id, outcome_id, t)
    IN  IF err # "Ok"
        THEN Unwritten(err)
        ELSE [Unwritten("Ok") EXCEPT
                !.oracle_votes = Put(oracle_votes, market_id,
                    CastVote(VotingOf(market_id, t), voter_id, outcome_id,
                             players[voter_id].reputation))]

VoteOnOutcome(voter_id, market_id, outcome_id) ==
    /\ Commit(VoteOnOutcomeCall(voter_id, market_id, outcome_id, now))
    /\ UNCHANGED history

\* ------------------------------------------------------------------------
\* trigger_market_resolution
\* ------------------------------------------------------------------------
SetMin(S) == CHOOSE x \in S : \A y \in S : x <= y

\* the tally with a comparator that also lets an equal weight displace the leader
RECURSIVE TallyFromLastWins(_, _, _)
TallyFromLastWins(votes, ids, best) ==
    IF ids = {}
    THEN best
    ELSE LET oid == SetMin(ids)
             w == votes[oid].total_weight
             bw == (CHOOSE b \in best : TRUE)[2]
         IN  TallyFromLastWins(votes, ids \ {oid},
                               IF best = {} THEN {<<oid, w>>}
                               ELSE IF w >= bw THEN {<<oid, w>>}
                               ELSE best)

\* the loop of resolve_by_oracle_vote over the outcome ids not yet visited, in
\* the BTreeMap's ascending order; best is {} or {<<outcome id, weight>>}
RECURSIVE TallyFrom(_, _, _)
TallyFrom(votes, ids, best) ==
    IF ids = {}
    THEN best
    ELSE LET oid == SetMin(ids)
             w == votes[oid].total_weight
             bw == (CHOOSE b \in best : TRUE)[2]
         IN  TallyFrom(votes, ids \ {oid},
                       IF best = {} THEN {<<oid, w>>}
                       ELSE IF w > bw THEN {<<oid, w>>}
                       ELSE best)

\* ResolveByOracleVote falling back to outcome 0 where no vote is recorded
ResolveByOracleVoteDefault(market_id) ==
    IF market_id \notin DOMAIN oracle_votes
    THEN {0}
    ELSE {b[1] : b \in TallyFrom(oracle_votes[market_id].votes,
                                 DOMAIN oracle_votes[market_id].votes, {<<0, 0>>})}

\* resolve_by_oracle_vote: {} for Err(OracleNotReady), else {winning outcome}
ResolveByOracleVote(market_id) ==
    IF market_id \notin DOMAIN oracle_votes
    THEN {}
    ELSE {b[1] : b \in TallyFrom(oracle_votes[market_id].votes,
                                 DOMAIN oracle_votes[market_id].votes, {})}

\* resolve_automated
ResolveAutomated(market_id) == {0}

\* the first write of trigger_market_resolution
CloseIfActive(market) ==
    IF market.status = "Active" THEN [market EXCEPT !.status = "Closed"] ELSE market

\* Resolved with the wrong status variant written
ResolvedReopens(market, winning_outcome, t) ==
    [market EXCEPT !.winning_outcome = {winning_outcome},
                   !.status = "Active",
                   !.resolution_time = {t}]

\* Resolved without the status write
ResolvedKeepsStatus(market, winning_outcome, t) ==
    [market EXCEPT !.winning_outcome = {winning_outcome},
                   !.resolution_time = {t}]

\* the second write of trigger_market_resolution
Resolved(market, winning_outcome, t) ==
    [market EXCEPT !.winning_outcome = {winning_outcome},
                   !.status = "Resolved",
                   !.resolution_time = {t}]

\* TriggerResolutionCall without the comparison of the clock with end_time
TriggerResolutionCallAnyTime(market_id, t) ==
    IF market_id \notin DOMAIN markets THEN Unwritten("MarketNotFound")
    ELSE LET market == CloseIfActive(markets[market_id])
             closed == [Unwritten("Ok") EXCEPT !.markets = Put(markets, market_id, market)]
             winner == IF market.resolution_method = "OracleVoting"
                       THEN ResolveByOracleVote(market_id)
                       ELSE ResolveAutomated(market_id)
         IN  IF market.resolution_method = "CreatorDecides"
             THEN closed
             ELSE IF winner = {}
             THEN [closed EXCEPT !.res = "OracleNotReady"]
             ELSE [closed EXCEPT
                    !.markets = Put(markets, market_id,
                                    Resolved(market, CHOOSE w \in winner : TRUE, t)),
                    !.msgs = <<[type |-> "MarketResolved", market_id |-> market_id,
                                winning_outcome |-> CHOOSE w \in winner : TRUE]>>]

\* TriggerResolutionCall with the CreatorDecides arm falling through to the
\* automated strategy
TriggerResolutionCallCreatorAutomated(market_id, t) ==
    IF market_id \notin DOMAIN markets THEN Unwritten("MarketNotFound")
    ELSE IF t < markets[market_id].end_time THEN Unwritten("MarketNotEnded")
    ELSE LET market == CloseIfActive(markets[market_id])
             closed == [Unwritten("Ok") EXCEPT !.markets = Put(markets, market_id, market)]
             winner == IF market.resolution_method = "OracleVoting"
                       THEN ResolveByOracleVote(market_id)
                       ELSE ResolveAutomated(market_id)
         IN  IF winner = {}
             THEN [closed EXCEPT !.res = "OracleNotReady"]
             ELSE [closed EXCEPT
                    !.markets = Put(markets, market_id,
                                    Resolved(market, CHOOSE w \in winner : TRUE, t)),
                    !.msgs = <<[type |-> "MarketResolved", market_id |-> market_id,
                                winning_outcome |-> CHOOSE w \in winner : TRUE]>>]

TriggerResolutionCall(market_id, t) ==
    IF market_id \notin DOMAIN markets THEN Unwritten("MarketNotFound")
    ELSE IF t < markets[market_id].end_time THEN Unwritten("MarketNotEnded")
    ELSE LET market == CloseIfActive(markets[market_id])
             closed == [Unwritten("Ok") EXCEPT !.markets = Put(markets, market_id, market)]
             winner == IF market.resolution_method = "OracleVoting"
                       THEN ResolveByOracleVote(market_id)
                       ELSE ResolveAutomated(market_id)
         IN  IF market.resolution_method = "CreatorDecides"
             THEN closed
             ELSE IF winner = {}
             THEN [closed EXCEPT !.res = "OracleNotReady"]
             ELSE [closed EXCEPT
                    !.markets = Put(markets, market_id,
                                    Resolved(market, CHOOSE w \in winner : TRUE, t)),
                    !.msgs = <<[type |-> "MarketResolved", market_id |-> market_id,
                                winning_outcome |-> CHOOSE w \in winner : TRUE]>>]

\* how many messages of one type a call queued
Count(msgs, type) == Cardinality({i \in 1..Len(msgs) : msgs[i].type = type})

TriggerResolution(market_id) ==
    LET r == TriggerResolutionCall(market_id, now)
    IN  /\ r.msgs # <<>> => resolvedSent[market_id] < MaxResolutions
        /\ Commit(r)
        /\ resolvedSent' = IF r.msgs # <<>>
                           THEN [resolvedSent EXCEPT
                                    ![market_id] = @ + Count(r.msgs, "MarketResolved")]
                           ELSE resolvedSent
        /\ UNCHANGED <<claimCount, paidOut>>

\* ClaimWinningsError without the test for zero winning shares
ClaimWinningsErrorPaysLosers(player_id, market_id) ==
    IF market_id \notin DOMAIN markets THEN "MarketNotFound"
    ELSE IF markets[market_id].status # "Resolved" THEN "NotResolved"
    ELSE IF markets[market_id].winning_outcome = {} THEN "NotResolved"
    ELSE IF player_id \notin DOMAIN markets[market_id].positions THEN "NoPosition"
    ELSE IF player_id \notin DOMAIN players THEN "PlayerNotFound"
    ELSE "Ok"

\* ------------------------------------------------------------------------
\* claim_winnings
\* ------------------------------------------------------------------------
\* the checks of claim_winnings, in the code's order
ClaimWinningsError(player_id, market_id) ==
    IF market_id \notin DOMAIN markets THEN "MarketNotFound"
    ELSE IF markets[market_id].status # "Resolved" THEN "NotResolved"
    ELSE IF markets[market_id].winning_outcome = {} THEN "NotResolved"
    ELSE IF player_id \notin DOMAIN markets[market_id].positions THEN "NoPosition"
    ELSE IF SharesOf(markets[market_id].positions[player_id],
                     CHOOSE w \in markets[market_id].winning_outcome : TRUE) = 0
         THEN "NoWinnings"
    ELSE IF player_id \notin DOMAIN players THEN "PlayerNotFound"
    ELSE "Ok"

\* what claim_winnings credits: the claimant's shares of the winning outcome
Payout(market, player_id) ==
    SharesOf(market.positions[player_id], CHOOSE w \in market.winning_outcome : TRUE)

ClaimWinningsCall(player_id, market_id) ==
    LET err == ClaimWinningsError(player_id, market_id)
    IN  IF err # "Ok"
        THEN Unwritten(err)
        ELSE [Unwritten("Ok") EXCEPT
                !.players = [players EXCEPT
                    ![player_id].token_balance =
                        SatAdd(@, Payout(markets[market_id], player_id)),
                    ![player_id].total_earned =
                        SatAdd(@, Payout(markets[market_id], player_id))]]

ClaimWinnings(player_id, market_id) ==
    LET r == ClaimWinningsCall(player_id, market_id)
    IN  /\ r.res = "Ok" => claimCount[player_id][market_id] < MaxClaims
        /\ Commit(r)
        /\ IF r.res = "Ok"
           THEN /\ claimCount' = [claimCount EXCEPT ![player_id][market_id] = @ + 1]
                /\ paidOut' = [paidOut EXCEPT ![market_id] =
                        @ + r.players[player_id].token_balance
                          - players[player_id].token_balance]
           ELSE UNCHANGED <<claimCount, paidOut>>
        /\ UNCHANGED resolvedSent

\* ------------------------------------------------------------------------
\* Guilds
\* ------------------------------------------------------------------------
\* next_guild_id: (system_time().micros() & 0xFFFF_FFFF), held in units of 64
\* (1_000_000 = 64 * 15625, so the id of a whole second is a multiple of 64)
NextGuildId(t) == (((((t * 25) % 67108864) * 25) % 67108864) * 25) % 67108864

\* guild ids an operation may name: the ids of the clock's instants and one more
GuildIdsNamed == {NextGuildId(0), NextGuildId(1), NextGuildId(OneDaySeconds), 7}

CreateGuildCall(founder, t) ==
    IF founder \notin DOMAIN players THEN Unwritten("PlayerNotFound")
    ELSE IF players[founder].guild_id # {} THEN Unwritten("AlreadyInGuild")
    ELSE LET new_id == NextGuildId(t)
         IN  [Unwritten("Ok") EXCEPT
                !.guilds = Put(guilds, new_id,
                               [id |-> new_id, founder |-> founder, members |-> <<founder>>,
                                creation_time |-> t, shared_pool |-> 0]),
                !.players = [players EXCEPT ![founder].guild_id = {new_id}],
                !.msgs = <<[type |-> "GuildCreated", guild_id |-> new_id]>>]

CreateGuild(founder) ==
    /\ Commit(CreateGuildCall(founder, now))
    /\ UNCHANGED history

JoinGuildCall(player_id, guild_id) ==
    IF player_id \notin DOMAIN players THEN Unwritten("PlayerNotFound")
    ELSE IF players[player_id].guild_id # {} THEN Unwritten("AlreadyInGuild")
    ELSE IF guild_id \notin DOMAIN guilds THEN Unwritten("GuildNotFound")
    ELSE [Unwritten("Ok") EXCEPT
            !.guilds = [guilds EXCEPT ![guild_id].members = Append(@, player_id)],
            !.players = [players EXCEPT ![player_id].guild_id = {guild_id}]]

JoinGuild(player_id, guild_id) ==
    /\ Commit(JoinGuildCall(player_id, guild_id))
    /\ UNCHANGED history

\* Vec::retain(|m| m != player_id)
Retain(seq, x) == SelectSeq(seq, LAMBDA m : m # x)

LeaveGuildCall(player_id) ==
    IF player_id \notin DOMAIN players THEN Unwritten("PlayerNotFound")
    ELSE IF players[player_id].guild_id = {} THEN Unwritten("NotGuildMember")
    ELSE LET guild_id == CHOOSE g \in players[player_id].guild_id : TRUE
         IN  IF guild_id \notin DOMAIN guilds THEN Unwritten("GuildNotFound")
             ELSE [Unwritten("Ok") EXCEPT
                    !.guilds = [guilds EXCEPT ![guild_id].members = Retain(@, player_id)],
                    !.players = [players EXCEPT ![player_id].guild_id = {}]]

LeaveGuild(player_id) ==
    /\ Commit(LeaveGuildCall(player_id))
    /\ UNCHANGED history

ContributeToGuildCall(player_id, amount) ==
    IF player_id \notin DOMAIN players THEN Unwritten("PlayerNotFound")
    ELSE IF players[player_id].guild_id = {} THEN Unwritten("NotGuildMember")
    ELSE IF players[player_id].token_balance < amount THEN Unwritten("InsufficientBalance")
    ELSE LET guild_id == CHOOSE g \in players[player_id].guild_id : TRUE
         IN  IF guild_id \notin DOMAIN guilds THEN Unwritten("GuildNotFound")
             ELSE [Unwritten("Ok") EXCEPT
                    !.players = [players EXCEPT ![player_id].token_balance = SatSub(@, amount)],
                    !.guilds = [guilds EXCEPT ![guild_id].shared_pool = SatAdd(@, amount)]]

ContributeToGuild(player_id, amount) ==
    LET r == ContributeToGuildCall(player_id, amount)
    IN  /\ r.res = "Ok" =>
                \A g \in players[player_id].guild_id : r.guilds[g].shared_pool <= MaxPool
        /\ Commit(r)
        /\ UNCHANGED history

\* ------------------------------------------------------------------------
\* update_game_config
\* ------------------------------------------------------------------------
UpdateGameConfigCall(caller, new_config) ==
    IF caller \notin config.admin
    THEN Unwritten("NotAdmin")
    ELSE [Unwritten("Ok") EXCEPT !.config = new_config]

UpdateGameConfig(caller, new_config) ==
    /\ Commit(UpdateGameConfigCall(caller, new_config))
    /\ UNCHANGED history

\* ------------------------------------------------------------------------
\* Specifications
\* ------------------------------------------------------------------------
\* The guild handlers and claim_daily_reward read and write only state.guilds,
\* total_supply and a player's guild_id, last_login, token_balance and
\* total_earned; the market handlers read neither state.guilds nor last_login.
\* The two groups of operations are therefore explored in two specifications,
\* which share registration and the clock; a third explores update_game_config
\* with the one handler that reads what it changes, create_market.

\* the market operations
Next ==
    \/ Tick(1)
    \/ \E p \in Players : RegisterPlayer(p)
    \/ \E p \in Players, n \in OutcomeCounts, d \in Durations, r \in Methods :
            CreateMarket(p, n, d, r)
    \/ \E p \in Players, m \in MarketIds, o \in OutcomeIds, a \in Amounts, b \in SlippageBounds :
            BuyShares(p, m, o, a, b)
    \/ \E p \in Players, m \in MarketIds, o \in OutcomeIds, a \in ShareCounts, b \in SlippageBounds :
            SellShares(p, m, o, a, b)
    \/ \E p \in Players, m \in MarketIds, o \in OutcomeIds : VoteOnOutcome(p, m, o)
    \/ \E m \in MarketIds : TriggerResolution(m)
    \/ \E p \in Players, m \in MarketIds : ClaimWinnings(p, m)

Spec == Init /\ [][Next]_vars

\* the daily reward and the guild operations
GuildNext ==
    \/ \E d \in TickSteps : Tick(d)
    \/ \E p \in Players : RegisterPlayer(p)
    \/ \E p \in Players : ClaimDailyReward(p)
    \/ \E p \in Players : CreateGuild(p)
    \/ \E p \in Players, g \in GuildIdsNamed : JoinGuild(p, g)
    \/ \E p \in Players : LeaveGuild(p)
    \/ \E p \in Players, a \in Amounts : ContributeToGuild(p, a)

GuildSpec == Init /\ [][GuildNext]_vars

\* the administration of the configuration, and the markets created under it
ConfigNext ==
    \/ Tick(1)
    \/ \E p \in Players : RegisterPlayer(p)
    \/ \E p \in Players, c \in Configs : UpdateGameConfig(p, c)
    \/ \E p \in Players, n \in OutcomeCounts, d \in Durations, r \in Methods :
            CreateMarket(p, n, d, r)

ConfigSpec == Init /\ [][ConfigNext]_vars

\* market creation at the full width of its timing
TimingNext ==
    \/ Tick(1)
    \/ \E p \in Players : RegisterPlayer(p)
    \/ \E p \in Players, n \in OutcomeCounts, d \in LongDurations, r \in Methods,
          c \in BOOLEAN :
            CreateMarketTimed(p, n, d, r, c)

TimingSpec == Init /\ [][TimingNext]_vars

\* one identity buying again and again on one market
TradeNext ==
    \/ Tick(1)
    \/ \E p \in Players : RegisterPlayer(p)
    \/ \E p \in Players, n \in OutcomeCounts, d \in Durations, r \in Methods :
            CreateMarket(p, n, d, r)
    \/ \E p \in Traders, m \in MarketIds, o \in OutcomeIds, a \in Amounts, b \in SlippageBounds :
            BuySharesRepeated(p, m, o, a, b)

TradeSpec == Init /\ [][TradeNext]_vars

\* the identities that register, create markets and vote in the voting
\* specifications: three, so that one outcome can outweigh another
Voters == {"p1", "p2", "p3"}

\* the steps of the clock under the voting specifications: also from second 1
\* of a day to the start of the next, which passes every voting window opened
\* at second 0 or 1
VoteTickSteps == TickSteps \cup {OneDaySeconds - 1}

\* the oracle: markets are created, closed, voted on and resolved, over a clock
\* that also passes the end of the voting window
VoteNext ==
    \/ \E d \in VoteTickSteps : Tick(d)
    \/ \E p \in Voters : RegisterPlayer(p)
    \/ \E p \in Voters, n \in OutcomeCounts, d \in Durations, r \in Methods :
            CreateMarket(p, n, d, r)
    \/ \E p \in Voters, m \in MarketIds, o \in OutcomeIds : VoteOnOutcome(p, m, o)
    \/ \E m \in MarketIds : TriggerResolution(m)

VoteSpec == Init /\ [][VoteNext]_vars

\* The chain schedules nothing by itself: operations run when a signer submits
\* them. The liveness specification grants the most a market can ask of its
\* users: the clock keeps advancing, and for every market a TriggerResolution
\* and a vote are submitted as long as they would change the state.
VoteFairness ==
    /\ WF_vars(\E d \in VoteTickSteps : Tick(d))
    /\ \A m \in MarketIds :
            /\ WF_vars(TriggerResolution(m))
            /\ WF_vars(\E p \in Voters, o \in OutcomeIds : VoteOnOutcome(p, m, o))

LiveSpec == VoteSpec /\ VoteFairness

\* ------------------------------------------------------------------------
\* Claims
\* ------------------------------------------------------------------------
RECURSIVE SumOver(_, _)
SumOver(f, S) ==
    IF S = {} THEN 0
    ELSE LET x == CHOOSE y \in S : TRUE IN f[x] + SumOver(f, S \ {x})

\* the sum of all players' token_balance
SumBalances == SumOver([p \in DOMAIN players |-> players[p].token_balance], DOMAIN players)

\* the sum of all guilds' shared_pool
SumPools == SumOver([g \in DOMAIN guilds |-> guilds[g].shared_pool], DOMAIN guilds)

\* the shares of one outcome held over all positions of a market
SharesHeld(market, outcome_id) ==
    SumOver([p \in DOMAIN market.positions |-> SharesOf(market.positions[p], outcome_id)],
            DOMAIN market.positions)

\* what a call credited to a player
Credited(r, p) == r.players[p].token_balance - players[p].token_balance

\* C1: conservation. In every state between operations, total_supply equals
\* the sum of all players' token_balance plus the sum of all guilds' shared_pool.
C1_Conservation == total_supply = SumBalances + SumPools

\* C2: single claim. ClaimWinnings succeeds at most once per player and market,
\* and once it has, a further call returns NoWinnings and writes nothing.
C2_SingleClaim ==
    \A p \in Players, m \in MarketIds :
        /\ claimCount[p][m] <= 1
        /\ claimCount[p][m] >= 1 =>
                /\ ClaimWinningsCall(p, m).res = "NoWinnings"
                /\ StoreOf(ClaimWinningsCall(p, m)) = store

\* C3: proportional payout. A successful ClaimWinnings credits the claimant's
\* share of the pool: (its winning shares / all winning shares held) times
\* total_liquidity, rounded down.
C3_ProportionalPayout ==
    \A p \in Players, m \in MarketIds :
        ClaimWinningsCall(p, m).res = "Ok" =>
            LET market == markets[m]
                w == CHOOSE o \in market.winning_outcome : TRUE
            IN  Credited(ClaimWinningsCall(p, m), p) =
                    (SharesOf(market.positions[p], w) * market.total_liquidity)
                        \div SharesHeld(market, w)

\* C4: no overpayment. The tokens ClaimWinnings has credited for a Resolved
\* market, over all players and calls, never exceed its total_liquidity.
C4_NeverPaysMoreThanCollected ==
    \A m \in DOMAIN markets :
        markets[m].status = "Resolved" => paidOut[m] <= markets[m].total_liquidity

\* the place of a status in Active -> Closed -> Resolved
Rank(status) == CASE status = "Active" -> 0 [] status = "Closed" -> 1 [] status = "Resolved" -> 2

\* C5: a stored market stays stored and its status never moves backward along
\* Active -> Closed -> Resolved, whatever the step.
C5_StatusForward ==
    [][\A m \in DOMAIN markets :
            /\ m \in DOMAIN markets'
            /\ Rank(markets'[m].status) >= Rank(markets[m].status)]_vars

\* a market went Active -> Closed -> Resolved and was then triggered again
C5_Witness ==
    \E m \in DOMAIN markets :
        /\ markets[m].status = "Resolved"
        /\ markets[m].resolution_method = "Automated"
        /\ resolvedSent[m] >= 2

\* C6: for every stored market, winning_outcome is Some iff status is Resolved.
C6_WinnerIffResolved ==
    \A m \in DOMAIN markets :
        (markets[m].winning_outcome # {}) <=> (markets[m].status = "Resolved")

\* a Resolved market holding its winner
C6_Witness ==
    \E m \in DOMAIN markets :
        /\ markets[m].status = "Resolved"
        /\ markets[m].winning_outcome # {}
        /\ markets[m].total_liquidity > 0

\* C7: idempotent resolution. Once a market is Resolved, no step changes its
\* winning_outcome: every further TriggerResolution chooses the same outcome.
C7_WinnerStable ==
    [][\A m \in DOMAIN markets :
            markets[m].status = "Resolved" =>
                markets'[m].winning_outcome = markets[m].winning_outcome]_vars

\* an OracleVoting market with two voters that was resolved twice
C7_Witness ==
    \E m \in DOMAIN markets :
        /\ markets[m].status = "Resolved"
        /\ markets[m].resolution_method = "OracleVoting"
        /\ resolvedSent[m] >= 2
        /\ Len(oracle_votes[m].voters) = 2

\* C8: a MarketResolved message is queued at most once per market.
C8_ResolvedSentOnce == \A m \in MarketIds : resolvedSent[m] <= 1

BuySharesErrors ==
    {"MarketNotFound", "PlayerNotFound", "MarketNotActive", "MarketEnded", "InvalidOutcome",
     "InsufficientBalance", "SlippageExceeded"}

\* C9: a rejected BuyShares writes nothing. Whatever the arguments, a call that
\* returns an error returns one of the seven listed, leaves the store as it was
\* and queues no message; and when the market is Active and not ended and the
\* outcome is in range, an amount above the buyer's balance returns
\* InsufficientBalance.
C9_RejectedBuyWritesNothing ==
    \A p \in Players, m \in MarketIds, o \in OutcomeIds, a \in Amounts, b \in SlippageBounds :
        LET r == BuySharesCall(p, m, o, a, b, now)
        IN  /\ r.res # "Ok" =>
                    /\ r.res \in BuySharesErrors
                    /\ StoreOf(r) = store
                    /\ r.msgs = <<>>
            /\ ( /\ m \in DOMAIN markets
                 /\ p \in DOMAIN players
                 /\ markets[m].status = "Active"
                 /\ now < markets[m].end_time
                 /\ o < Len(markets[m].outcomes)
                 /\ a > players[p].token_balance ) => r.res = "InsufficientBalance"

\* a market with liquidity on which a buy is rejected for its amount and
\* another for its slippage bound
C9_Witness ==
    \E p \in Players, m \in MarketIds, o \in OutcomeIds :
        /\ m \in DOMAIN markets
        /\ markets[m].total_liquidity > 0
        /\ \E a \in Amounts, b \in SlippageBounds :
                BuySharesCall(p, m, o, a, b, now).res = "InsufficientBalance"
        /\ \E a \in Amounts, b \in SlippageBounds :
                BuySharesCall(p, m, o, a, b, now).res = "SlippageExceeded"

\* C10: a CreateMarket that returns InvalidOutcomeCount, DurationTooShort or
\* InsufficientBalance leaves the store (the creator's balance, total_supply,
\* the markets, next_market_id) as it was and queues no message.
C10_RejectedCreateWritesNothing ==
    \A p \in Players, n \in OutcomeCounts, d \in Durations, x \in Methods :
        LET r == CreateMarketCall(p, n, d, x, now)
        IN  r.res \in {"InvalidOutcomeCount", "DurationTooShort", "InsufficientBalance"} =>
                /\ StoreOf(r) = store
                /\ r.msgs = <<>>

\* a state with a market stored in which CreateMarket is rejected for each of
\* the three reasons
C10_Witness ==
    /\ next_market_id > 0
    /\ \A e \in {"InvalidOutcomeCount", "DurationTooShort", "InsufficientBalance"} :
            \E p \in Players, n \in OutcomeCounts, d \in Durations, x \in Methods :
                CreateMarketCall(p, n, d, x, now).res = e

\* C11: a rejected resolution writes nothing. A TriggerResolution that returns
\* MarketNotFound, MarketNotEnded or OracleNotReady leaves the stored markets,
\* the status of the named market included, as they were.
C11_RejectedResolutionWritesNothing ==
    \A m \in MarketIds :
        LET r == TriggerResolutionCall(m, now)
        IN  r.res \in {"MarketNotFound", "MarketNotEnded", "OracleNotReady"} =>
                r.markets = markets

\* C12: no operation silently discards a failure. For every operation and every
\* argument, the response of a rejected call differs from the response of a call
\* that succeeded.
C12_NoSilentFailure ==
    LET succeeded == ExecuteOperationResponse(Unwritten("Ok"))
        Visible(r) == r.res # "Ok" => ExecuteOperationResponse(r) # succeeded
    IN  /\ \A p \in Players : Visible(RegisterPlayerCall(p, now))
        /\ \A p \in Players : Visible(ClaimDailyRewardCall(p, now))
        /\ \A p \in Players, n \in OutcomeCounts, d \in Durations, x \in Methods :
                Visible(CreateMarketCall(p, n, d, x, now))
        /\ \A p \in Players, m \in MarketIds, o \in OutcomeIds, a \in Amounts,
              b \in SlippageBounds :
                Visible(BuySharesCall(p, m, o, a, b, now))
        /\ \A p \in Players, m \in MarketIds, o \in OutcomeIds, a \in ShareCounts,
              b \in SlippageBounds :
                Visible(SellSharesCall(p, m, o, a, b, now))
        /\ \A p \in Players, m \in MarketIds, o \in OutcomeIds :
                Visible(VoteOnOutcomeCall(p, m, o, now))
        /\ \A m \in MarketIds : Visible(TriggerResolutionCall(m, now))
        /\ \A p \in Players, m \in MarketIds : Visible(ClaimWinningsCall(p, m))
        /\ \A p \in Players : Visible(CreateGuildCall(p, now))
        /\ \A p \in Players, g \in GuildIdsNamed : Visible(JoinGuildCall(p, g))
        /\ \A p \in Players : Visible(LeaveGuildCall(p))
        /\ \A p \in Players, a \in Amounts : Visible(ContributeToGuildCall(p, a))
        /\ \A p \in Players, c \in Configs : Visible(UpdateGameConfigCall(p, c))

\* the voted outcomes of greatest accumulated weight
Heaviest(votes) ==
    {o \in DOMAIN votes : \A q \in DOMAIN votes : votes[q].total_weight <= votes[o].total_weight}

\* C13: oracle tally and tie-break. Whenever TriggerResolution resolves an
\* OracleVoting market, and in every Resolved OracleVoting market, the winning
\* outcome is the lowest outcome id among the voted outcomes of greatest
\* accumulated weight, whatever the order the votes were cast in.
C13_TallyAndTieBreak ==
    \A m \in DOMAIN markets :
        markets[m].resolution_method = "OracleVoting" =>
            LET r == TriggerResolutionCall(m, now)
            IN  /\ (r.res = "Ok" /\ r.markets[m].status = "Resolved") =>
                        r.markets[m].winning_outcome =
                            {SetMin(Heaviest(oracle_votes[m].votes))}
                /\ markets[m].status = "Resolved" =>
                        markets[m].winning_outcome =
                            {SetMin(Heaviest(oracle_votes[m].votes))}

\* a market resolved to outcome 0 on a tie of 100 against 100 between the
\* outcomes 0 and 1
C13_Witness ==
    \E m \in DOMAIN markets :
        /\ markets[m].status = "Resolved"
        /\ markets[m].resolution_method = "OracleVoting"
        /\ DOMAIN oracle_votes[m].votes = {0, 1}
        /\ oracle_votes[m].votes[0].total_weight = 100
        /\ oracle_votes[m].votes[1].total_weight = 100
        /\ markets[m].winning_outcome = {0}

\* the tally of one outcome in a votes map: zero weight and count when unvoted
TallyOf(votes, o) ==
    IF o \in DOMAIN votes THEN votes[o] ELSE [total_weight |-> 0, voter_count |-> 0]

\* C14: one vote per identity per market. No identity is twice in a market's
\* voter list; a VoteOnOutcome by an identity already in the list is rejected
\* (with AlreadyVoted while the market is Closed) for every outcome and leaves
\* the votes as they were; an accepted vote adds the voter's reputation to the
\* chosen outcome's total_weight and one to its voter_count, and leaves the
\* other outcomes' tallies alone.
C14_OneVotePerIdentity ==
    /\ \A m \in DOMAIN oracle_votes :
            \A i, j \in 1..Len(oracle_votes[m].voters) :
                oracle_votes[m].voters[i] = oracle_votes[m].voters[j] => i = j
    /\ \A p \in Voters, m \in MarketIds, o \in OutcomeIds :
            LET r == VoteOnOutcomeCall(p, m, o, now)
            IN  /\ (m \in DOMAIN oracle_votes /\ Contains(oracle_votes[m].voters, p)) =>
                        /\ r.res # "Ok"
                        /\ markets[m].status = "Closed" => r.res = "AlreadyVoted"
                        /\ r.oracle_votes = oracle_votes
                /\ r.res = "Ok" =>
                        LET before == VotingOf(m, now).votes
                            after == r.oracle_votes[m].votes
                        IN  /\ after[o].total_weight =
                                    TallyOf(before, o).total_weight + players[p].reputation
                            /\ after[o].voter_count = TallyOf(before, o).voter_count + 1
                            /\ \A q \in OutcomeIds \ {o} : TallyOf(after, q) = TallyOf(before, q)
                            /\ r.oracle_votes[m].voters = Append(VotingOf(m, now).voters, p)

\* a Closed market on which two identities have voted, one of them for an
\* outcome another vote had already reached, and a third can still vote
C14_Witness ==
    \E m \in DOMAIN oracle_votes :
        /\ markets[m].status = "Closed"
        /\ Len(oracle_votes[m].voters) = 2
        /\ \E o \in DOMAIN oracle_votes[m].votes : oracle_votes[m].votes[o].voter_count = 2
        /\ \E p \in Voters, o \in OutcomeIds : VoteOnOutcomeCall(p, m, o, now).res = "Ok"
        /\ \E p \in Voters, o \in OutcomeIds : VoteOnOutcomeCall(p, m, o, now).res = "AlreadyVoted"

\* C15: a vote is accepted only on a Closed market of the OracleVoting method.
\* For a registered voter and a stored market: on an Active or Resolved market
\* VoteOnOutcome returns MarketNotReadyForVoting, on a Closed market of another
\* method InvalidResolutionMethod, and neither records a vote; an accepted vote
\* is on a Closed OracleVoting market.
C15_VoteOnlyOnClosedOracleMarket ==
    \A p \in Voters, m \in MarketIds, o \in OutcomeIds :
        LET r == VoteOnOutcomeCall(p, m, o, now)
        IN  /\ r.res = "Ok" =>
                    /\ markets[m].status = "Closed"
                    /\ markets[m].resolution_method = "OracleVoting"
            /\ (p \in DOMAIN players /\ m \in DOMAIN markets) =>
                    /\ markets[m].status \in {"Active", "Resolved"} =>
                            /\ r.res = "MarketNotReadyForVoting"
                            /\ r.oracle_votes = oracle_votes
                    /\ ( /\ markets[m].status = "Closed"
                         /\ markets[m].resolution_method \in {"Automated", "CreatorDecides"} ) =>
                            /\ r.res = "InvalidResolutionMethod"
                            /\ r.oracle_votes = oracle_votes

\* a Closed market of the CreatorDecides method, and a registered identity
\* whose vote on it is rejected for the method
C15_Witness ==
    \E p \in Voters, m \in DOMAIN markets :
        /\ markets[m].status = "Closed"
        /\ markets[m].resolution_method = "CreatorDecides"
        /\ p \in DOMAIN players
        /\ p # markets[m].creator
        /\ VoteOnOutcomeCall(p, m, 0, now).res = "InvalidResolutionMethod"

\* C16: votes are accepted only inside the voting window. Once a market's
\* voting record exists, a VoteOnOutcome at or after its voting_end is rejected
\* and leaves the tally and the voter list as they were.
C16_VotingWindowEnforced ==
    \A p \in Voters, m \in DOMAIN oracle_votes, o \in OutcomeIds :
        now >= oracle_votes[m].voting_end =>
            LET r == VoteOnOutcomeCall(p, m, o, now)
            IN  /\ r.res # "Ok"
                /\ r.oracle_votes = oracle_votes

\* C17: no votes, no resolution. While no vote is recorded for an OracleVoting
\* market, the market is not Resolved and has no winning_outcome, and a
\* TriggerResolution at or after its end_time returns OracleNotReady and stores
\* neither.
C17_OracleNotReadyWithoutVotes ==
    \A m \in DOMAIN markets :
        ( /\ markets[m].resolution_method = "OracleVoting"
          /\ (m \notin DOMAIN oracle_votes \/ DOMAIN oracle_votes[m].votes = {}) ) =>
            /\ markets[m].status # "Resolved"
            /\ markets[m].winning_outcome = {}
            /\ now >= markets[m].end_time =>
                    LET r == TriggerResolutionCall(m, now)
                    IN  /\ r.res = "OracleNotReady"
                        /\ r.markets[m].status # "Resolved"
                        /\ r.markets[m].winning_outcome = {}
                        /\ r.msgs = <<>>

\* an OracleVoting market that a TriggerResolution has closed, with no vote
\* recorded and a later TriggerResolution due
C17_Witness ==
    \E m \in DOMAIN markets :
        /\ markets[m].resolution_method = "OracleVoting"
        /\ markets[m].status = "Closed"
        /\ m \notin DOMAIN oracle_votes
        /\ now > markets[m].end_time
        /\ TriggerResolutionCall(m, now).res = "OracleNotReady"

\* C18: resolution only at or after end_time. In every step, a
\* TriggerResolution on a stored market before its end_time returns
\* MarketNotEnded and writes nothing, and a market that leaves the Active status
\* does so at a time at or after its end_time.
C18_NoResolutionBeforeEnd ==
    [][\A m \in DOMAIN markets :
            /\ now < markets[m].end_time =>
                    /\ TriggerResolutionCall(m, now).res = "MarketNotEnded"
                    /\ StoreOf(TriggerResolutionCall(m, now)) = store
            /\ (markets[m].status = "Active" /\ markets'[m].status # "Active") =>
                    now >= markets[m].end_time]_vars

\* a market that was traded on before its end_time and has left Active after it
C18_Witness ==
    \E m \in DOMAIN markets :
        /\ markets[m].status # "Active"
        /\ markets[m].total_liquidity > 0
        /\ now >= markets[m].end_time

\* C19: a CreatorDecides market is never tallied. Such a market is Active or
\* Closed, has no winning_outcome and no resolution_time, and has queued no
\* MarketResolved message; a TriggerResolution at or after its end_time, the
\* first or any later one, returns Ok, stores it Closed with neither field set
\* and queues nothing.
C19_CreatorDecidesStaysClosed ==
    \A m \in DOMAIN markets :
        markets[m].resolution_method = "CreatorDecides" =>
            /\ markets[m].status \in {"Active", "Closed"}
            /\ markets[m].winning_outcome = {}
            /\ markets[m].resolution_time = {}
            /\ resolvedSent[m] = 0
            /\ now >= markets[m].end_time =>
                    LET r == TriggerResolutionCall(m, now)
                    IN  /\ r.res = "Ok"
                        /\ r.markets[m].status = "Closed"
                        /\ r.markets[m].winning_outcome = {}
                        /\ r.markets[m].resolution_time = {}
                        /\ r.msgs = <<>>

\* a CreatorDecides market with liquidity that a TriggerResolution has closed
\* and on which a further TriggerResolution is due
C19_Witness ==
    \E m \in DOMAIN markets :
        /\ markets[m].resolution_method = "CreatorDecides"
        /\ markets[m].status = "Closed"
        /\ markets[m].total_liquidity > 0
        /\ TriggerResolutionCall(m, now).res = "Ok"

\* C20: every market can be resolved. Under users that keep submitting every
\* TriggerResolution and vote that would change the state, a stored market whose
\* end_time has passed eventually has status Resolved, whatever its method.
C20_EveryMarketResolves ==
    \A m \in MarketIds :
        (m \in DOMAIN markets /\ now >= markets[m].end_time)
            ~> (m \in DOMAIN markets /\ markets[m].status = "Resolved")

\* C21: no buy on a market that is not Active or has ended. A BuyShares that
\* succeeds is on an Active market before its end_time and on an outcome in
\* range; for a registered buyer and a stored market, a market not Active gives
\* MarketNotActive, an Active one at or after end_time MarketEnded, and an
\* outcome out of range on an Active market before end_time InvalidOutcome.
C21_BuyOnlyOnOpenMarket ==
    \A p \in Players, m \in MarketIds, o \in OutcomeIds, a \in Amounts, b \in SlippageBounds :
        LET r == BuySharesCall(p, m, o, a, b, now)
        IN  /\ r.res = "Ok" =>
                    /\ markets[m].status = "Active"
                    /\ now < markets[m].end_time
                    /\ o < Len(markets[m].outcomes)
            /\ (p \in DOMAIN players /\ m \in DOMAIN markets) =>
                    /\ markets[m].status # "Active" => r.res = "MarketNotActive"
                    /\ (markets[m].status = "Active" /\ now >= markets[m].end_time) =>
                            r.res = "MarketEnded"
                    /\ ( /\ markets[m].status = "Active"
                         /\ now < markets[m].end_time
                         /\ o >= Len(markets[m].outcomes) ) => r.res = "InvalidOutcome"

\* an Active market with liquidity whose end_time has come, on which a buy the
\* buyer can afford is rejected as MarketEnded
C21_Witness ==
    \E p \in Players, m \in DOMAIN markets :
        /\ markets[m].status = "Active"
        /\ markets[m].total_liquidity > 0
        /\ now = markets[m].end_time
        /\ BuySharesCall(p, m, 0, 200, 5000, now).res = "MarketEnded"

\* the shares of an outcome a player holds in a market map, zero without a position
Held(ms, p, m, o) ==
    IF m \in DOMAIN ms /\ p \in DOMAIN ms[m].positions
    THEN SharesOf(ms[m].positions[p], o)
    ELSE 0

\* C22: no identity sells shares it does not hold. For a registered seller on
\* an Active market, SellShares returns NoPosition without a position and
\* InsufficientShares for more shares than held, and writes nothing; a sale that
\* succeeds is of at most the shares held. And in every step a holding grows
\* only by the shares a BuyShares of its holder issues and shrinks only by the
\* shares a SellShares of its holder names, so it never exceeds what the holder
\* bought minus what it sold.
C22_NoSaleOfSharesNotHeld ==
    /\ [](\A p \in Players, m \in MarketIds, o \in OutcomeIds, n \in ShareCounts,
             b \in SlippageBounds :
            LET r == SellSharesCall(p, m, o, n, b, now)
            IN  /\ r.res = "Ok" => (p \in DOMAIN markets[m].positions /\ n <= Held(markets, p, m, o))
                /\ (p \in DOMAIN players /\ m \in DOMAIN markets /\ markets[m].status = "Active") =>
                        /\ p \notin DOMAIN markets[m].positions =>
                                (r.res = "NoPosition" /\ StoreOf(r) = store)
                        /\ (p \in DOMAIN markets[m].positions /\ Held(markets, p, m, o) < n) =>
                                (r.res = "InsufficientShares" /\ StoreOf(r) = store))
    /\ [][\A p \in Players, m \in MarketIds, o \in OutcomeIds :
            /\ Held(markets', p, m, o) > Held(markets, p, m, o) =>
                    \E a \in Amounts, b \in SlippageBounds :
                        /\ BuySharesCall(p, m, o, a, b, now).res = "Ok"
                        /\ BuySharesCall(p, m, o, a, b, now).markets = markets'
                        /\ Held(markets', p, m, o) =
                                Held(markets, p, m, o)
                                    + CalculateSharesForAmount(markets[m], o, a)
            /\ Held(markets', p, m, o) < Held(markets, p, m, o) =>
                    \E n \in ShareCounts, b \in SlippageBounds :
                        /\ SellSharesCall(p, m, o, n, b, now).res = "Ok"
                        /\ SellSharesCall(p, m, o, n, b, now).markets = markets'
                        /\ Held(markets', p, m, o) = Held(markets, p, m, o) - n]_vars

\* a seller that bought 200 shares and sold 100 of them, for which a sale of
\* 200 is rejected as InsufficientShares, beside an identity without a position
C22_Witness ==
    \E p, q \in Players, m \in DOMAIN markets, o \in OutcomeIds :
        /\ markets[m].status = "Active"
        /\ Held(markets, p, m, o) = 100
        /\ players[p].total_spent >= 200
        /\ SellSharesCall(p, m, o, 200, 0, now).res = "InsufficientShares"
        /\ SellSharesCall(q, m, o, 100, 0, now).res = "NoPosition"

\* C23: ClaimWinnings credits only a holder of winning shares of a Resolved
\* market. A call that succeeds is on a Resolved market for a caller holding a
\* positive number of shares of the winning outcome; on a stored market that is
\* Active or Closed the call returns NotResolved, on a Resolved one NoPosition
\* without a position and NoWinnings without winning shares; and a call that
\* fails writes nothing.
C23_ClaimOnlyForWinners ==
    \A p \in Players, m \in MarketIds :
        LET r == ClaimWinningsCall(p, m)
        IN  /\ r.res = "Ok" =>
                    /\ markets[m].status = "Resolved"
                    /\ \E w \in markets[m].winning_outcome : Held(markets, p, m, w) > 0
            /\ r.res # "Ok" => (StoreOf(r) = store /\ r.msgs = <<>>)
            /\ m \in DOMAIN markets =>
                    /\ markets[m].status \in {"Active", "Closed"} => r.res = "NotResolved"
                    /\ (markets[m].status = "Resolved" /\ p \notin DOMAIN markets[m].positions) =>
                            r.res = "NoPosition"
                    /\ ( /\ markets[m].status = "Resolved"
                         /\ p \in DOMAIN markets[m].positions
                         /\ \A w \in markets[m].winning_outcome : Held(markets, p, m, w) = 0 ) =>
                            r.res = "NoWinnings"

\* a Resolved market on which one identity has been paid for its winning shares
\* and another holds only shares of a losing outcome
C23_Witness ==
    \E p, q \in Players, m \in DOMAIN markets :
        /\ markets[m].status = "Resolved"
        /\ claimCount[p][m] >= 1
        /\ q \in DOMAIN markets[m].positions
        /\ ClaimWinningsCall(q, m).res = "NoWinnings"

\* the outcome ids of a stored market are 0..n-1 in order
OutcomeIdsInOrder(market) ==
    \A i \in 1..Len(market.outcomes) : market.outcomes[i].id = i - 1

\* a creator that passes every check of CreateMarket but the outcome count
CreatorReady(p, d) ==
    /\ p \in DOMAIN players
    /\ d >= config.min_market_duration_seconds
    /\ players[p].token_balance >= config.market_creation_cost

\* C24 as stated: for a registered creator with the creation cost and a valid
\* duration CreateMarket succeeds with 2 outcome names and returns
\* InvalidOutcomeCount with 1 and with max_outcomes_per_market + 1, and every
\* stored market has between 2 and max_outcomes_per_market outcomes, the
\* maximum being the one of the configuration in force, with ids 0..n-1.
C24_AsStated ==
    /\ \A p \in Players, d \in Durations, x \in Methods :
            CreatorReady(p, d) =>
                /\ CreateMarketCall(p, 2, d, x, now).res = "Ok"
                /\ CreateMarketCall(p, 1, d, x, now).res = "InvalidOutcomeCount"
                /\ CreateMarketCall(p, config.max_outcomes_per_market + 1, d, x, now).res
                        = "InvalidOutcomeCount"
    /\ \A m \in DOMAIN markets :
            /\ Len(markets[m].outcomes) \in 2..config.max_outcomes_per_market
            /\ OutcomeIdsInOrder(markets[m])

\* C24: the outcome-count boundary, with the maximum read at creation. For a
\* registered creator with the creation cost and a valid duration CreateMarket
\* returns InvalidOutcomeCount with 1 outcome name and with
\* max_outcomes_per_market + 1, and succeeds with 2 when the configured maximum
\* is at least 2; every stored market has at least 2 outcomes with ids 0..n-1;
\* and a step that stores a market stores one with at most the
\* max_outcomes_per_market of the configuration the step started from, and
\* leaves the outcome count of the markets already stored as it was.
C24_OutcomeCountBoundary ==
    /\ [](/\ \A p \in Players, d \in Durations, x \in Methods :
                CreatorReady(p, d) =>
                    /\ config.max_outcomes_per_market >= 2 =>
                            CreateMarketCall(p, 2, d, x, now).res = "Ok"
                    /\ CreateMarketCall(p, 1, d, x, now).res = "InvalidOutcomeCount"
                    /\ CreateMarketCall(p, config.max_outcomes_per_market + 1, d, x, now).res
                            = "InvalidOutcomeCount"
          /\ \A m \in DOMAIN markets :
                /\ Len(markets[m].outcomes) >= 2
                /\ OutcomeIdsInOrder(markets[m]))
    /\ [][\A m \in DOMAIN markets' :
            IF m \in DOMAIN markets
            THEN Len(markets'[m].outcomes) = Len(markets[m].outcomes)
            ELSE Len(markets'[m].outcomes) \in 2..config.max_outcomes_per_market]_vars

\* a market of 3 outcomes stored under a maximum of 3, beside a ready creator
\* for whom 2 names succeed and 1 name and 4 names are rejected
C24_Witness ==
    \E m \in DOMAIN markets, p \in Players, d \in Durations, x \in Methods :
        /\ Len(markets[m].outcomes) = 3
        /\ config.max_outcomes_per_market = 3
        /\ CreatorReady(p, d)
        /\ CreateMarketCall(p, 2, d, x, now).res = "Ok"
        /\ CreateMarketCall(p, 1, d, x, now).res = "InvalidOutcomeCount"
        /\ CreateMarketCall(p, 4, d, x, now).res = "InvalidOutcomeCount"

\* C25: the duration boundary. For a registered creator with the creation cost
\* and a valid number of outcome names, CreateMarket with a duration equal to
\* min_market_duration_seconds succeeds and stores a market ending that many
\* seconds after the call, and with one second less it returns DurationTooShort
\* and writes nothing.
C25_DurationBoundary ==
    \A p \in Players, n \in OutcomeCounts, x \in Methods :
        LET least == config.min_market_duration_seconds
            at == CreateMarketCall(p, n, least, x, now)
            below == CreateMarketCall(p, n, least - 1, x, now)
        IN  ( /\ p \in DOMAIN players
              /\ n \in 2..config.max_outcomes_per_market
              /\ players[p].token_balance >= config.market_creation_cost ) =>
                /\ at.res = "Ok"
                /\ at.markets[next_market_id].end_time = now + least
                /\ least >= 1 => (below.res = "DurationTooShort" /\ StoreOf(below) = store)

\* a stored market that lasts exactly the minimum duration, beside a creator
\* for whom the minimum is accepted and one second less is rejected
C25_Witness ==
    \E m \in DOMAIN markets, p \in DOMAIN players, x \in Methods :
        /\ markets[m].end_time - markets[m].creation_time = config.min_market_duration_seconds
        /\ config.min_market_duration_seconds >= 1
        /\ CreateMarketCall(p, 2, config.min_market_duration_seconds, x, now).res = "Ok"
        /\ CreateMarketCall(p, 2, config.min_market_duration_seconds - 1, x, now).res
                = "DurationTooShort"

\* the tokens of a store: the balances, the supply and the liquidity of the markets
TokensHeld(ps, supply, ms) ==
    SumOver([p \in DOMAIN ps |-> ps[p].token_balance], DOMAIN ps)
        + supply
        + SumOver([m \in DOMAIN ms |-> ms[m].total_liquidity], DOMAIN ms)

\* C26: fees are funded out of the gross amount. In every successful
\* CreateMarket, BuyShares and SellShares the credits made (the creator fee, the
\* platform fee added to total_supply, the liquidity added or the value paid to
\* the seller) sum to the amount debited, so the balances, the supply and the
\* liquidity together hold after the call what they held before it.
C26_FeesOutOfGross ==
    LET held == TokensHeld(players, total_supply, markets)
        Kept(r) == r.res = "Ok" => TokensHeld(r.players, r.total_supply, r.markets) = held
    IN  /\ \A p \in Players, n \in OutcomeCounts, d \in Durations, x \in Methods :
                Kept(CreateMarketCall(p, n, d, x, now))
        /\ \A p \in Players, m \in MarketIds, o \in OutcomeIds, a \in Amounts,
              b \in SlippageBounds :
                Kept(BuySharesCall(p, m, o, a, b, now))
        /\ \A p \in Players, m \in MarketIds, o \in OutcomeIds, n \in ShareCounts,
              b \in SlippageBounds :
                Kept(SellSharesCall(p, m, o, n, b, now))

\* C27: an out-of-range outcome index is always an error value. For a
\* registered seller with a position on an Active market, SellShares naming an
\* outcome_id at or beyond the number of outcomes returns InvalidOutcome for
\* every share count, zero included, and never indexes the outcomes out of
\* bounds.
C27_OutOfRangeOutcomeIsError ==
    \A p \in Players, m \in MarketIds, o \in OutcomeIds, n \in ShareCounts,
       b \in SlippageBounds :
        ( /\ p \in DOMAIN players
          /\ m \in DOMAIN markets
          /\ markets[m].status = "Active"
          /\ p \in DOMAIN markets[m].positions
          /\ o >= Len(markets[m].outcomes) ) =>
            SellSharesCall(p, m, o, n, b, now).res = "InvalidOutcome"

\* C28: no overflow in market timing. For every 64-bit duration_seconds, at
\* every time and in either build, CreateMarket returns an error value or
\* stores a market whose end_time is creation_time + duration_seconds *
\* 1_000_000 microseconds computed without wrapping modulo 2^64, so that every
\* stored market has end_time > creation_time.
C28_NoOverflowInTiming ==
    /\ \A p \in Players, n \in OutcomeCounts, d \in LongDurations, x \in Methods,
          c \in BOOLEAN :
            LET r == CreateMarketTimedCall(p, n, d, x, now, c)
            IN  /\ r.res # "Panic"
                /\ r.res = "Ok" => ~EndTimeMicros(now, d).overflow
    /\ \A m \in DOMAIN markets : LessU64(markets[m].creation_time, markets[m].end_time)

\* the per-share bounds a buyer may name: the slippage bounds and two between
\* the price of one share and the amounts traded
PerShareBounds == SlippageBounds \cup {1, 100}

\* C30: the buy slippage bound is a per-share price bound. For a registered
\* buyer with the balance, on an Active market before its end_time and an
\* outcome in range, a BuyShares that issues shares returns SlippageExceeded
\* exactly when amount divided by the shares issued exceeds
\* max_price_per_share, and succeeds otherwise, whatever the total amount.
C30_SlippagePerShare ==
    \A p \in Players, m \in MarketIds, o \in OutcomeIds, a \in Amounts, b \in PerShareBounds :
        ( /\ p \in DOMAIN players
          /\ m \in DOMAIN markets
          /\ markets[m].status = "Active"
          /\ now < markets[m].end_time
          /\ o < Len(markets[m].outcomes)
          /\ players[p].token_balance >= a
          /\ CalculateSharesForAmount(markets[m], o, a) > 0 ) =>
            LET shares == CalculateSharesForAmount(markets[m], o, a)
                r == BuySharesCall(p, m, o, a, b, now)
            IN  IF a > b * shares
                THEN r.res = "SlippageExceeded"
                ELSE r.res = "Ok"

\* C31: every entry of every position's shares_by_outcome map is strictly
\* positive in every reachable state, whatever buys and sales were made, a buy
\* of amount zero and a sale of the full holding included.
C31_PositiveShareEntries ==
    \A m \in DOMAIN markets :
        \A p \in DOMAIN markets[m].positions :
            \A o \in DOMAIN markets[m].positions[p].shares_by_outcome :
                markets[m].positions[p].shares_by_outcome[o] > 0

\* C32: the effect of a successful BuyShares. A BuyShares of amount a that
\* succeeds, whoever the buyer is (the creator of the market and a buyer whose
\* level rises on this trade included), lowers the buyer's token_balance by
\* exactly a, raises the market's total_liquidity by exactly a, raises the
\* outcome's total_shares and the buyer's shares of that outcome by the same
\* number, and leaves every other market and every other outcome of this
\* market as they were.
C32_BuyEffect ==
    \A p \in Players, m \in MarketIds, o \in OutcomeIds, a \in Amounts, b \in SlippageBounds :
        LET r == BuySharesCall(p, m, o, a, b, now)
        IN  r.res = "Ok" =>
                /\ r.players[p].token_balance = players[p].token_balance - a
                /\ r.markets[m].total_liquidity = markets[m].total_liquidity + a
                /\ r.markets[m].outcomes[o + 1].total_shares
                        - markets[m].outcomes[o + 1].total_shares
                    = Held(r.markets, p, m, o) - Held(markets, p, m, o)
                /\ \A k \in DOMAIN markets \ {m} : r.markets[k] = markets[k]
                /\ \A i \in 1..Len(markets[m].outcomes) :
                        i # o + 1 => r.markets[m].outcomes[i] = markets[m].outcomes[i]

\* the sum of the total_shares of the outcomes of a market
SharesIssued(market) ==
    SumOver([i \in 1..Len(market.outcomes) |-> market.outcomes[i].total_shares],
            1..Len(market.outcomes))

\* C33: share bookkeeping is consistent in every reachable state. For every
\* market and outcome the outcome's total_shares is the sum over all positions
\* of the shares held of that outcome, and the market's total_liquidity is the
\* sum of the total_shares of its outcomes.
C33_ShareBookkeeping ==
    \A m \in DOMAIN markets :
        /\ \A i \in 1..Len(markets[m].outcomes) :
                markets[m].outcomes[i].total_shares = SharesHeld(markets[m], i - 1)
        /\ markets[m].total_liquidity = SharesIssued(markets[m])

\* a market on which two identities hold shares, one of them after selling a
\* part of what it bought
C33_Witness ==
    \E m \in DOMAIN markets, p, q \in Players, o \in OutcomeIds :
        /\ p # q
        /\ Held(markets, p, m, o) = 100
        /\ players[p].total_spent >= 200
        /\ \E k \in OutcomeIds : Held(markets, q, m, k) = 200
        /\ markets[m].total_liquidity = 300

\* the trading state of a market: its liquidity, the shares and price of each
\* outcome, and its positions
TradingState(market) ==
    <<market.total_liquidity,
      [i \in 1..Len(market.outcomes) |->
            <<market.outcomes[i].total_shares, market.outcomes[i].current_price>>],
      market.positions>>

\* C34: trading state is frozen once a market has left Active. No step taken
\* while a market is Closed or Resolved changes its total_liquidity, the
\* total_shares or current_price of any of its outcomes, or any of its
\* positions; and no BuyShares, SellShares, VoteOnOutcome, TriggerResolution or
\* ClaimWinnings offered in such a state would.
C34_FrozenAfterActive ==
    /\ [](\A m \in DOMAIN markets :
            markets[m].status \in {"Closed", "Resolved"} =>
                /\ \A p \in Players, o \in OutcomeIds, a \in Amounts, b \in SlippageBounds :
                        TradingState(BuySharesCall(p, m, o, a, b, now).markets[m])
                            = TradingState(markets[m])
                /\ \A p \in Players, o \in OutcomeIds, n \in ShareCounts, b \in SlippageBounds :
                        TradingState(SellSharesCall(p, m, o, n, b, now).markets[m])
                            = TradingState(markets[m])
                /\ \A p \in Players, o \in OutcomeIds :
                        TradingState(VoteOnOutcomeCall(p, m, o, now).markets[m])
                            = TradingState(markets[m])
                /\ TradingState(TriggerResolutionCall(m, now).markets[m])
                        = TradingState(markets[m])
                /\ \A p \in Players :
                        TradingState(ClaimWinningsCall(p, m).markets[m])
                            = TradingState(markets[m]))
    /\ [][\A m \in DOMAIN markets :
            markets[m].status \in {"Closed", "Resolved"} =>
                /\ m \in DOMAIN markets'
                /\ TradingState(markets'[m]) = TradingState(markets[m])]_vars

\* a Resolved market that was voted on and paid out, whose holders still have
\* the positions and the liquidity they traded
C34_Witness ==
    \E m \in DOMAIN markets, p \in Players :
        /\ markets[m].status = "Resolved"
        /\ claimCount[p][m] >= 1
        /\ markets[m].total_liquidity > 0
        /\ p \in DOMAIN markets[m].positions
        /\ m \in DOMAIN oracle_votes

\* C35: the winning outcome is a real outcome of the market. In every
\* reachable state the winning_outcome of a Resolved market is an index in
\* 0..outcomes.len()-1, whatever outcome ids were passed to VoteOnOutcome.
C35_WinnerIsAnOutcome ==
    \A m \in DOMAIN markets :
        markets[m].status = "Resolved" =>
            \A w \in markets[m].winning_outcome : w \in 0..(Len(markets[m].outcomes) - 1)

\* C36: no trade executes after a market's end. A SellShares on a stored
\* market applied at or after its end_time is rejected and changes neither the
\* seller's balance nor the market, also while the market is still Active
\* because no resolution has been triggered yet.
C36_NoSaleAfterEnd ==
    \A p \in Players, m \in MarketIds, o \in OutcomeIds, n \in ShareCounts,
       b \in SlippageBounds :
        (m \in DOMAIN markets /\ now >= markets[m].end_time) =>
            LET r == SellSharesCall(p, m, o, n, b, now)
            IN  /\ r.res # "Ok"
                /\ r.players = players
                /\ r.markets = markets

\* C37: an OracleVoting market is never moved to Resolved while its voting
\* window is open. A TriggerResolution on an OracleVoting market that is not
\* Resolved, applied before the voting_end of its voting record, leaves it
\* without a winning outcome.
C37_NoResolutionInsideWindow ==
    \A m \in DOMAIN markets :
        ( /\ markets[m].resolution_method = "OracleVoting"
          /\ markets[m].status # "Resolved"
          /\ m \in DOMAIN oracle_votes
          /\ now < oracle_votes[m].voting_end ) =>
            LET r == TriggerResolutionCall(m, now)
            IN  /\ r.markets[m].status # "Resolved"
                /\ r.markets[m].winning_outcome = {}

\* C38: a market's resolution_time is written once. No step changes the
\* resolution_time of a market that has one, a later TriggerResolution at a
\* later timestamp included.
C38_ResolutionTimeWrittenOnce ==
    [][\A m \in DOMAIN markets :
            markets[m].resolution_time # {} =>
                /\ m \in DOMAIN markets'
                /\ markets'[m].resolution_time = markets[m].resolution_time]_vars

\* C39: CreateGuild never overwrites an existing guild. A CreateGuild that
\* succeeds produces an id no stored guild has, at whatever timestamp it is
\* applied, and leaves every stored guild, its shared_pool included, as it was;
\* and every player's guild_id refers to a stored guild whose member list
\* contains that player.
C39_CreateGuildNeverOverwrites ==
    /\ \A p \in Players :
            LET r == CreateGuildCall(p, now)
            IN  r.res = "Ok" =>
                    /\ NextGuildId(now) \notin DOMAIN guilds
                    /\ \A g \in DOMAIN guilds : r.guilds[g] = guilds[g]
    /\ \A p \in DOMAIN players :
            \A g \in players[p].guild_id :
                /\ g \in DOMAIN guilds
                /\ Contains(guilds[g].members, p)
====
